---- MODULE Spec2Model ----
(***************************************************************************)
(* Model of the MCP session/protocol handler (class MCPHandler): the       *)
(* connection registry, the handshake state of each connection, message    *)
(* validation and dispatch, the suspended tools/call invocations, and the  *)
(* heartbeat timer that evicts stale connections and pushes keep-alives.   *)
(***************************************************************************)
EXTENDS Integers, Sequences, FiniteSets, TLC

\* ------------------------------------------------------------------ bounds
NumConnIds == 3
MaxHandles == 3
MaxTime == 2
MaxPending == 1
MaxSteps == 5

\* ------------------------------------------------- configuration (config.mcp)
maxConnections == 2
connectionTimeout == 1

\* ------------------------------------------------------------ MCPErrorCode
PARSE_ERROR == -32700
INVALID_REQUEST == -32600
METHOD_NOT_FOUND == -32601
INVALID_PARAMS == -32602
INTERNAL_ERROR == -32603
INVALID_PROMPT == -32002
RESOURCE_NOT_FOUND == -32003
AUTHENTICATION_ERROR == -32005

\* --------------------------------------------------------------- MCPMethod
\* The nine names the switch of handleRequest has a case for.
HandledMethods ==
  {"initialize", "initialized", "ping", "tools/list", "tools/call",
   "resources/list", "resources/read", "prompts/list", "prompts/get"}

\* Method names a client can send: the handled ones and one name the enum
\* declares but the switch has no case for.
Methods == HandledMethods \cup {"resources/subscribe"}

\* The handlers that start with the `if (!connection.authenticated)` guard.
GuardedMethods ==
  {"tools/list", "tools/call", "resources/list", "resources/read",
   "prompts/list", "prompts/get"}

ConnIds == 1..NumConnIds
Handles == 1..MaxHandles

\* JSON-RPC ids: absent, the number 0, the number 1; "unknown" is the
\* sentinel of sendError.
ReqIds == {"none", "n0", "n1"}

\* JavaScript falsiness of an id value (undefined and 0 are falsy).
Falsy(id) == id \in {"none", "n0"}

\* sendError: `id: id || 'unknown'`
ErrorId(id) == IF Falsy(id) THEN "unknown" ELSE id

\* ------------------------------------------------------------------ state
VARIABLES
  now,          \* the wall clock read by `new Date()`
  connections,  \* Map<string, SSEConnection>: connection id -> object (0 = no entry)
  obj,          \* the SSEConnection objects, by object identity
  cbs,          \* object -> its response still has the close/error callbacks armed
  broken,       \* object -> its response.write throws
  pending,      \* tools/call handlers suspended on an await, oldest first
  last,         \* what the most recent step did (observation only)
  steps,        \* the number of events so far
  heartbeatInterval,  \* the setInterval timer is set (FALSE = null)
  idle          \* object -> clock advances since its connection was admitted
                \* or last sent a message (observation only)

vars == <<now, connections, obj, cbs, broken, pending, last, steps,
          heartbeatInterval, idle>>

\* Variant: the event loop takes no event while a handler waits on an await.
StepWaitsForPending ==
  /\ last.op = "init"
  /\ steps < MaxSteps /\ steps' = steps + 1
  /\ pending = <<>>

\* The event loop takes the next event when the callback before it has
\* returned; every event counts as one step, up to the bound.
Step ==
  /\ last.op = "init"
  /\ steps < MaxSteps /\ steps' = steps + 1

\* An SSEConnection slot that holds no object.
FreeObj ==
  [id |-> 0, authenticated |-> FALSE, clientInfo |-> "none",
   capabilities |-> "none", lastActivity |-> 0]

NoParams ==
  [present |-> FALSE, protocolVersion |-> FALSE, clientInfo |-> "none",
   capabilities |-> "none", name |-> "none", token |-> FALSE]

\* A decoded inbound payload: how far JSON.parse got, the envelope fields
\* the handler looks at, and the params fields the handlers look at.
NoMsg ==
  [shape |-> "-", jsonrpc |-> FALSE, method |-> "", id |-> "none",
   hasResult |-> FALSE, hasError |-> FALSE, p |-> NoParams]

NoLast ==
  [op |-> "init", cid |-> 0, h |-> 0, msg |-> NoMsg, preAuth |-> FALSE,
   frames |-> <<>>, calls |-> {}, outcome |-> FALSE, evicted |-> {},
   threw |-> FALSE, ended |-> {}, endThrew |-> {}, dispatched |-> FALSE,
   preActivity |-> 0, preInfo |-> "none", preTimer |-> TRUE]

\* connections.size
Size(c) == Cardinality({i \in ConnIds : c[i] # 0})

\* An object nothing can reach any more: not in the registry, no armed
\* callback, no suspended handler holding it.
Dead(h, c, cb, pnd) ==
  /\ \A i \in ConnIds : c[i] # h
  /\ ~cb[h]
  /\ \A k \in 1..Len(pnd) : pnd[k].h # h

\* Unreachable objects are collected.
Collect(o, c, cb, pnd) ==
  [h \in Handles |-> IF Dead(h, c, cb, pnd) THEN FreeObj ELSE o[h]]

\* sendMessage is called on the registry's entries and on the connection a
\* suspended handler holds: only their responses are written to again.
Writable(h, c, pnd) ==
  \/ \E i \in ConnIds : c[i] = h
  \/ \E k \in 1..Len(pnd) : pnd[k].h = h

\* Whether a write would throw is kept for the responses still written to.
Forget(b, c, pnd) ==
  [h \in Handles |-> IF Writable(h, c, pnd) THEN b[h] ELSE FALSE]

\* The time without inbound traffic is counted for the registry's entries, up
\* to the first value past connectionTimeout.
IdleCap == connectionTimeout + 1

Quiet(idl, c) ==
  [h \in Handles |-> IF \E i \in ConnIds : c[i] = h THEN idl[h] ELSE 0]

FreeHandles == {h \in Handles : Dead(h, connections, cbs, pending)}

\* Connection ids are opaque strings the handler only compares for equality:
\* an id that no live object carries stands for every such id, so the caller
\* uses the least one.
CarriedIds == {obj[h].id : h \in Handles \ FreeHandles}

CallerIds ==
  CarriedIds \cup
    {i \in ConnIds \ CarriedIds : \A j \in ConnIds \ CarriedIds : i <= j}

\* ------------------------------------------------------- registry helpers
\* response.end() of a response whose methods throw, throws.
EndThrows(W, h) == W.b[h]

\* Variant: an exception of response.end() leaves removeConnection before the
\* entry is deleted.
RemoveConnectionPropagates(W, cid) ==
  IF W.c[cid] # 0
  THEN IF EndThrows(W, W.c[cid])
       THEN [W EXCEPT !.e = @ \cup {W.c[cid]}, !.x = @ \cup {W.c[cid]}]
       ELSE [W EXCEPT !.c[cid] = 0, !.e = @ \cup {W.c[cid]}]
  ELSE W

\* removeConnection, on the record of the registry (c), the objects (o), the
\* transports that throw (b), the objects whose response.end() was called in
\* this step (e) and those of them whose end() threw (x).
RemoveConnection(W, cid) ==
  IF W.c[cid] # 0
  THEN [W EXCEPT !.c[cid] = 0, !.e = @ \cup {W.c[cid]},
                 !.x = IF EndThrows(W, W.c[cid]) THEN @ \cup {W.c[cid]} ELSE @]
  ELSE W

\* The registry and the objects before a step.
World == [c |-> connections, o |-> obj, b |-> broken, e |-> {}, x |-> {}]

\* Variant: a write that returns puts the connection (back) into the registry.
SendMessageRegisters(W, h, ok, t) ==
  IF ok
  THEN [W EXCEPT !.o[h].lastActivity = t, !.c[W.o[h].id] = h]
  ELSE RemoveConnection(W, W.o[h].id)

\* Variant: a write that returns counts as activity of every connection.
SendMessageTouchesAll(W, h, ok, t) ==
  IF ok
  THEN [W EXCEPT !.o = [k \in Handles |->
                          IF W.o[k].id # 0
                          THEN [W.o[k] EXCEPT !.lastActivity = t]
                          ELSE W.o[k]]]
  ELSE RemoveConnection(W, W.o[h].id)

\* Variant: a write that returns leaves lastActivity alone.
SendMessageKeepsActivity(W, h, ok, t) ==
  IF ok
  THEN W
  ELSE RemoveConnection(W, W.o[h].id)

\* sendMessage: a write that returns sets lastActivity, a write that throws
\* removes whatever the registry holds under the connection's id.
SendMessage(W, h, ok, t) ==
  IF ok
  THEN [W EXCEPT !.o[h].lastActivity = t]
  ELSE RemoveConnection(W, W.o[h].id)

\* A frame handed to sendMessage.
Frame(h, kind, id, code, tag, isError, ok) ==
  [h |-> h, kind |-> kind, id |-> id, code |-> code, tag |-> tag,
   isError |-> isError, ok |-> ok]

\* Variant: the capacity test lets one connection too many in.
AtCapacityOffByOne(size) == size > maxConnections

\* `this.connections.size >= config.mcp.maxConnections`
AtCapacity(size) == size >= maxConnections

Init ==
  /\ now = 0
  /\ connections = [i \in ConnIds |-> 0]
  /\ obj = [h \in Handles |-> FreeObj]
  /\ cbs = [h \in Handles |-> FALSE]
  /\ broken = [h \in Handles |-> FALSE]
  /\ pending = <<>>
  /\ last = NoLast
  /\ steps = 0
  /\ heartbeatInterval = TRUE
  /\ idle = [h \in Handles |-> 0]

\* Variant: the welcome is left to the first heartbeat.
WelcomeLeftOut(h, ok) == <<>>

\* The frame addConnection writes after the headers: the
\* notifications/message welcome.
Welcome(h, ok) ==
  <<Frame(h, "notification", "none", 0, "welcome", FALSE, ok)>>

\* ------------------------------------------------------------ addConnection
AddConnection(cid) ==
  /\ Step
  /\ IF AtCapacity(Size(connections))
     THEN /\ last' = [NoLast EXCEPT !.op = "reject", !.cid = cid]
          /\ UNCHANGED <<now, connections, obj, cbs, broken, pending, idle>>
     ELSE /\ FreeHandles # {}
          /\ \E ok \in BOOLEAN :
               LET h == CHOOSE x \in FreeHandles : \A y \in FreeHandles : x <= y
                   W0 == [c |-> [connections EXCEPT ![cid] = h],
                          o |-> [obj EXCEPT ![h] =
                                   [FreeObj EXCEPT !.id = cid, !.lastActivity = now]],
                          b |-> [broken EXCEPT ![h] = ~ok],
                          e |-> {}, x |-> {}]
                   W1 == SendMessage(W0, h, ok, now)
               IN /\ connections' = W1.c
                  /\ cbs' = [cbs EXCEPT ![h] = TRUE]
                  /\ pending' = pending
                  /\ obj' = Collect(W1.o, connections', cbs', pending')
                  /\ broken' = Forget([broken EXCEPT ![h] = ~ok], connections', pending')
                  /\ last' = [NoLast EXCEPT !.op = "add", !.cid = cid, !.h = h,
                                !.frames = Welcome(h, ok),
                                !.ended = W1.e, !.endThrew = W1.x]
                  /\ idle' = Quiet([idle EXCEPT ![h] = 0], connections')
          /\ UNCHANGED now
  /\ UNCHANGED heartbeatInterval

\* ------------------------------------------------------- inbound payloads
Obj(method, id, p) ==
  [shape |-> "object", jsonrpc |-> TRUE, method |-> method, id |-> id,
   hasResult |-> FALSE, hasError |-> FALSE, p |-> p]

InitializeParams ==
  {NoParams,
   [NoParams EXCEPT !.present = TRUE, !.protocolVersion = TRUE,
                    !.clientInfo = "a", !.capabilities = "caps"],
   [NoParams EXCEPT !.present = TRUE, !.protocolVersion = TRUE,
                    !.clientInfo = "b"],
   [NoParams EXCEPT !.present = TRUE, !.clientInfo = "a"],
   [NoParams EXCEPT !.present = TRUE, !.protocolVersion = TRUE]}

ToolsCallParams ==
  {NoParams, [NoParams EXCEPT !.present = TRUE, !.token = TRUE]}
  \cup {[NoParams EXCEPT !.present = TRUE, !.name = "known", !.token = t] :
          t \in BOOLEAN}
  \cup {[NoParams EXCEPT !.present = TRUE, !.name = "unknown", !.token = TRUE]}

PromptsGetParams ==
  {NoParams} \cup {[NoParams EXCEPT !.present = TRUE, !.name = n] :
                     n \in {"known", "unknown"}}

\* resources/list and resources/read: no params, or params naming a resource.
ResourcesParams ==
  {NoParams, [NoParams EXCEPT !.present = TRUE, !.name = "known"]}

ParamsOf(method) ==
  CASE method = "initialize" -> InitializeParams
    [] method = "tools/call" -> ToolsCallParams
    [] method = "prompts/get" -> PromptsGetParams
    [] method \in {"resources/list", "resources/read"} -> ResourcesParams
    [] OTHER -> {NoParams}

\* The ids a request of a method is sent with.
IdsOf(method) ==
  CASE method = "ping" -> ReqIds
    [] method = "tools/list" -> {"n0"}
    [] OTHER -> {"n1"}

Messages ==
  {[NoMsg EXCEPT !.shape = "unparseable"], [NoMsg EXCEPT !.shape = "nonobject"]}
  \cup {[Obj("ping", "n1", NoParams) EXCEPT !.jsonrpc = FALSE]}
  \cup {Obj("", "n1", NoParams)}
  \cup {[Obj("", "n1", NoParams) EXCEPT !.hasResult = TRUE],
        [Obj("", "n1", NoParams) EXCEPT !.hasError = TRUE]}
  \cup UNION {{Obj(m, id, p) : id \in IdsOf(m), p \in ParamsOf(m)} : m \in Methods}

\* handleMessage returns before it looks at the payload when the registry
\* has no entry for the id, and a guarded handler returns before it looks at
\* the params when the connection is not authenticated: one payload stands
\* for all of them there.
MessagesFor(cid) ==
  IF connections[cid] = 0
  THEN {Obj("ping", "n1", NoParams)}
  ELSE IF obj[connections[cid]].authenticated
  THEN Messages
  ELSE {m \in Messages : m.method \in GuardedMethods => m.p = NoParams}

\* Variant: a message with a method is taken whatever its jsonrpc field says.
IsValidMCPMessageAnyVersion(m) ==
  /\ m.shape = "object"
  /\ (m.method # "" \/ (m.jsonrpc /\ (m.hasResult \/ m.hasError)))

\* isValidMCPMessage
IsValidMCPMessage(m) ==
  /\ m.shape = "object"
  /\ m.jsonrpc
  /\ (m.method # "" \/ m.hasResult \/ m.hasError)

\* ------------------------------------------------------------ the handlers
NoReply == [kind |-> "none", id |-> "none", code |-> 0, tag |-> "", isError |-> FALSE]

\* sendError
ErrorReply(id, code) ==
  [kind |-> "error", id |-> ErrorId(id), code |-> code, tag |-> "", isError |-> FALSE]

\* sendResponse of {jsonrpc, id: request.id!, result}
ResultReply(id, tag, isError) ==
  [kind |-> "result", id |-> id, code |-> 0, tag |-> tag, isError |-> isError]

\* What a handler does up to its return or its first suspension.
Done(conn, reply, calls) ==
  [conn |-> conn, reply |-> reply, calls |-> calls, suspend |-> FALSE,
   threw |-> FALSE, dispatched |-> FALSE]

\* A handler whose promise rejects: the exception is on its way up.
Thrown(conn, calls) ==
  [conn |-> conn, reply |-> NoReply, calls |-> calls, suspend |-> FALSE,
   threw |-> TRUE, dispatched |-> FALSE]

NotAuthenticated(conn, req) ==
  Done(conn, ErrorReply(req.id, AUTHENTICATION_ERROR), {})

\* The result handleInitialize replies with.
InitializeResult ==
  [protocolVersion |-> "config.mcp.protocolVersion",
   capabilities |->
     [tools |-> [listChanged |-> TRUE],
      resources |-> [subscribe |-> FALSE, listChanged |-> TRUE],
      prompts |-> [listChanged |-> TRUE]]]

\* Variant: a successful initialize makes the connection Ready.
HandleInitializeAuthenticates(conn, req) ==
  IF ~req.p.present \/ ~req.p.protocolVersion \/ req.p.clientInfo = "none"
  THEN Done(conn, ErrorReply(req.id, INVALID_PARAMS), {})
  ELSE Done([conn EXCEPT !.clientInfo = req.p.clientInfo,
                         !.capabilities = req.p.capabilities,
                         !.authenticated = TRUE],
            ResultReply(req.id, "initialize", FALSE), {})

\* Variant: a successful initialize starts the handshake over.
HandleInitializeResets(conn, req) ==
  IF ~req.p.present \/ ~req.p.protocolVersion \/ req.p.clientInfo = "none"
  THEN Done(conn, ErrorReply(req.id, INVALID_PARAMS), {})
  ELSE Done([conn EXCEPT !.clientInfo = req.p.clientInfo,
                         !.capabilities = req.p.capabilities,
                         !.authenticated = FALSE],
            ResultReply(req.id, "initialize", FALSE), {})

\* Variant: a Ready connection keeps what its first initialize recorded.
HandleInitializeKeepsFirst(conn, req) ==
  IF ~req.p.present \/ ~req.p.protocolVersion \/ req.p.clientInfo = "none"
  THEN Done(conn, ErrorReply(req.id, INVALID_PARAMS), {})
  ELSE IF conn.authenticated
  THEN Done(conn, ResultReply(req.id, "initialize", FALSE), {})
  ELSE Done([conn EXCEPT !.clientInfo = req.p.clientInfo,
                         !.capabilities = req.p.capabilities],
            ResultReply(req.id, "initialize", FALSE), {})

HandleInitialize(conn, req) ==
  IF ~req.p.present \/ ~req.p.protocolVersion \/ req.p.clientInfo = "none"
  THEN Done(conn, ErrorReply(req.id, INVALID_PARAMS), {})
  ELSE Done([conn EXCEPT !.clientInfo = req.p.clientInfo,
                         !.capabilities = req.p.capabilities],
            ResultReply(req.id, "initialize", FALSE), {})

\* Variant: `initialized` is acknowledged with an empty result.
HandleInitializedAcks(conn, req) ==
  Done([conn EXCEPT !.authenticated = TRUE],
       ResultReply(req.id, "initialized", FALSE), {})

HandleInitialized(conn, req) ==
  Done([conn EXCEPT !.authenticated = TRUE], NoReply, {})

\* Variant: ping behind the authentication guard.
HandlePingGuarded(conn, req) ==
  IF ~conn.authenticated
  THEN NotAuthenticated(conn, req)
  ELSE Done(conn, ResultReply(req.id, "timestamp", FALSE), {})

HandlePing(conn, req) ==
  Done(conn, ResultReply(req.id, "timestamp", FALSE), {})

\* `rejects`: the promise of the registry's listing call rejects.
HandleToolsList(conn, req, rejects) ==
  IF ~conn.authenticated
  THEN NotAuthenticated(conn, req)
  ELSE IF rejects
  THEN Thrown(conn, {"getAvailableTools"})
  ELSE Done(conn, ResultReply(req.id, "tools", FALSE), {"getAvailableTools"})

\* Variant: the access token is looked for before the tool name.
HandleToolsCallTokenFirst(conn, req) ==
  IF ~conn.authenticated
  THEN NotAuthenticated(conn, req)
  ELSE IF ~req.p.token
  THEN Done(conn, ErrorReply(req.id, AUTHENTICATION_ERROR), {})
  ELSE IF ~req.p.present \/ req.p.name = "none"
  THEN Done(conn, ErrorReply(req.id, INVALID_PARAMS), {})
  ELSE [conn |-> conn, reply |-> NoReply, calls |-> {"validateToken"},
        suspend |-> TRUE, threw |-> FALSE, dispatched |-> FALSE]

\* handleToolsCall up to `await canvasClient.validateToken()`
HandleToolsCall(conn, req) ==
  IF ~conn.authenticated
  THEN NotAuthenticated(conn, req)
  ELSE IF ~req.p.present \/ req.p.name = "none"
  THEN Done(conn, ErrorReply(req.id, INVALID_PARAMS), {})
  ELSE IF ~req.p.token
  THEN Done(conn, ErrorReply(req.id, AUTHENTICATION_ERROR), {})
  ELSE [conn |-> conn, reply |-> NoReply, calls |-> {"validateToken"},
        suspend |-> TRUE, threw |-> FALSE, dispatched |-> FALSE]

\* Variant: resources/list without the authentication guard.
HandleResourcesListUnguarded(conn, req) ==
  Done(conn, ResultReply(req.id, "resources", FALSE), {})

HandleResourcesList(conn, req) ==
  IF ~conn.authenticated
  THEN NotAuthenticated(conn, req)
  ELSE Done(conn, ResultReply(req.id, "resources", FALSE), {})

\* The result handleResourcesList replies with.
ResourcesListResult == [resources |-> <<>>]

\* Variant: resources/read finds the resource its params name.
HandleResourcesReadByName(conn, req) ==
  IF ~conn.authenticated
  THEN NotAuthenticated(conn, req)
  ELSE IF req.p.present /\ req.p.name # "none"
  THEN Done(conn, ResultReply(req.id, "contents", FALSE), {})
  ELSE Done(conn, ErrorReply(req.id, RESOURCE_NOT_FOUND), {})

HandleResourcesRead(conn, req) ==
  IF ~conn.authenticated
  THEN NotAuthenticated(conn, req)
  ELSE Done(conn, ErrorReply(req.id, RESOURCE_NOT_FOUND), {})

HandlePromptsList(conn, req, rejects) ==
  IF ~conn.authenticated
  THEN NotAuthenticated(conn, req)
  ELSE IF rejects
  THEN Thrown(conn, {"getAvailablePrompts"})
  ELSE Done(conn, ResultReply(req.id, "prompts", FALSE), {"getAvailablePrompts"})

\* Variant: a failing getPrompt reported the way a failing tool is.
HandlePromptsGetContentError(conn, req) ==
  IF ~conn.authenticated
  THEN NotAuthenticated(conn, req)
  ELSE IF ~req.p.present \/ req.p.name = "none"
  THEN Done(conn, ErrorReply(req.id, INVALID_PARAMS), {})
  ELSE IF req.p.name = "unknown"
  THEN Done(conn, ResultReply(req.id, "messages", TRUE), {"getPrompt"})
  ELSE Done(conn, ResultReply(req.id, "messages", FALSE), {"getPrompt"})

\* getPrompt throws for a name the registry has no prompt for.
HandlePromptsGet(conn, req) ==
  IF ~conn.authenticated
  THEN NotAuthenticated(conn, req)
  ELSE IF ~req.p.present \/ req.p.name = "none"
  THEN Done(conn, ErrorReply(req.id, INVALID_PARAMS), {})
  ELSE IF req.p.name = "unknown"
  THEN Done(conn, ErrorReply(req.id, INVALID_PROMPT), {"getPrompt"})
  ELSE Done(conn, ResultReply(req.id, "messages", FALSE), {"getPrompt"})

\* Variant: the default case behind the authentication guard.
UnknownMethodGuarded(conn, req) ==
  IF ~conn.authenticated
  THEN NotAuthenticated(conn, req)
  ELSE Done(conn, ErrorReply(req.id, METHOD_NOT_FOUND), {})

\* The default case of the switch of handleRequest.
UnknownMethod(conn, req) ==
  Done(conn, ErrorReply(req.id, METHOD_NOT_FOUND), {})

\* The switch of handleRequest.
Dispatch(conn, req, rejects) ==
  CASE req.method = "initialize" -> HandleInitialize(conn, req)
    [] req.method = "initialized" -> HandleInitialized(conn, req)
    [] req.method = "ping" -> HandlePing(conn, req)
    [] req.method = "tools/list" -> HandleToolsList(conn, req, rejects)
    [] req.method = "tools/call" -> HandleToolsCall(conn, req)
    [] req.method = "resources/list" -> HandleResourcesList(conn, req)
    [] req.method = "resources/read" -> HandleResourcesRead(conn, req)
    [] req.method = "prompts/list" -> HandlePromptsList(conn, req, rejects)
    [] req.method = "prompts/get" -> HandlePromptsGet(conn, req)
    [] OTHER -> UnknownMethod(conn, req)

\* handleRequest: the switch inside try/catch; the catch answers an exception
\* of an awaited handler with INTERNAL_ERROR. `dispatched` records that the
\* message got as far as the switch.
HandleRequest(conn, req, rejects) ==
  LET R == Dispatch(conn, req, rejects)
  IN [(IF R.threw
       THEN Done(R.conn, ErrorReply(req.id, INTERNAL_ERROR), R.calls)
       ELSE R) EXCEPT !.dispatched = TRUE]

\* The catch of handleMessage, around JSON.parse and everything after it.
Caught(R) ==
  IF R.threw
  THEN Done(R.conn, ErrorReply("none", PARSE_ERROR), R.calls)
  ELSE R

\* Variant: a response sent by the client is refused as an invalid request.
DecodeRefusesResponses(conn, m, rejects) ==
  IF m.shape = "unparseable"
  THEN Done(conn, ErrorReply("none", PARSE_ERROR), {})
  ELSE IF ~IsValidMCPMessage(m) \/ m.method = ""
  THEN Done(conn, ErrorReply(m.id, INVALID_REQUEST), {})
  ELSE Caught(HandleRequest(conn, m, rejects))

\* Variant: a payload JSON.parse throws on is reported as an invalid message.
DecodeParseAsInvalid(conn, m, rejects) ==
  IF m.shape = "unparseable" \/ ~IsValidMCPMessage(m)
  THEN Done(conn, ErrorReply(m.id, INVALID_REQUEST), {})
  ELSE IF m.method # ""
  THEN Caught(HandleRequest(conn, m, rejects))
  ELSE Done(conn, NoReply, {})

\* The body of handleMessage after the registry lookup.
Decode(conn, m, rejects) ==
  IF m.shape = "unparseable"
  THEN Done(conn, ErrorReply("none", PARSE_ERROR), {})
  ELSE IF ~IsValidMCPMessage(m)
  THEN Done(conn, ErrorReply(m.id, INVALID_REQUEST), {})
  ELSE IF m.method # ""
  THEN Caught(HandleRequest(conn, m, rejects))
  ELSE Done(conn, NoReply, {})

\* The listing calls of the registry are awaited outside any try of their
\* handlers: the outcomes of the await a request can meet.
Rejections(conn, m) ==
  IF /\ IsValidMCPMessage(m)
     /\ m.method \in {"tools/list", "prompts/list"}
     /\ conn.authenticated
  THEN BOOLEAN ELSE {FALSE}

\* Variant: a reply is held back while an earlier request of the same
\* connection is still waiting for its own.
FramesOfInRequestOrder(h, reply, ok) ==
  IF reply.kind = "none" \/ \E k \in 1..Len(pending) : pending[k].h = h
  THEN <<>>
  ELSE <<Frame(h, reply.kind, reply.id, reply.code, reply.tag, reply.isError, ok)>>

\* The frames one reply puts on a connection's transport.
FramesOf(h, reply, ok) ==
  IF reply.kind = "none"
  THEN <<>>
  ELSE <<Frame(h, reply.kind, reply.id, reply.code, reply.tag, reply.isError, ok)>>

\* response.write on an object's transport returns (TRUE) or throws.
WriteOk(h) == ~broken[h]

\* The outcomes of response.write for a handler that resumes after an await:
\* the response of a connection the registry still holds is in the state it
\* was left in; the response of one it no longer holds may have been ended or
\* destroyed in the meantime, and a write to it returns or throws.
WriteOutcomes(h) ==
  IF (\E i \in ConnIds : connections[i] = h) \/ broken[h]
  THEN {WriteOk(h)}
  ELSE BOOLEAN

\* Variant: handleMessage leaves lastActivity to the writes.
TouchOnWriteOnly(conn, t) == conn

\* `connection.lastActivity = new Date()` at the top of handleMessage.
Touch(conn, t) == [conn EXCEPT !.lastActivity = t]

\* Variant: the connection is looked up among the connection objects that
\* are still alive, registered or not.
UnknownConnectionTouches(cid, m) ==
  /\ last' = [NoLast EXCEPT !.op = "msg", !.cid = cid, !.msg = m]
  /\ obj' = [h \in Handles |->
               IF obj[h].id = cid THEN Touch(obj[h], now) ELSE obj[h]]
  /\ UNCHANGED <<now, connections, cbs, broken, pending, idle>>

\* handleMessage when the registry has no entry for the id: it logs and
\* returns.
UnknownConnection(cid, m) ==
  /\ last' = [NoLast EXCEPT !.op = "msg", !.cid = cid, !.msg = m]
  /\ UNCHANGED <<now, connections, obj, cbs, broken, pending, idle>>

\* handleMessage
HandleMessage(cid, m) ==
  /\ Step
  /\ IF connections[cid] = 0
     THEN UnknownConnection(cid, m)
     ELSE \E rejects \in Rejections(obj[connections[cid]], m) :
          LET h == connections[cid]
              touched == Touch(obj[h], now)
              D == Decode(touched, m, rejects)
          IN /\ D.suspend => Len(pending) < MaxPending
             /\ LET ok == WriteOk(h)
                      W0 == [World EXCEPT !.o[h] = D.conn]
                      W1 == IF D.reply.kind = "none" THEN W0
                            ELSE SendMessage(W0, h, ok, now)
                  IN /\ connections' = W1.c
                     /\ pending' = IF D.suspend
                                   THEN Append(pending, [h |-> h, req |-> m,
                                                         stage |-> "validating"])
                                   ELSE pending
                     /\ obj' = Collect(W1.o, connections', cbs, pending')
                     /\ broken' = Forget(broken, connections', pending')
                     /\ last' = [NoLast EXCEPT !.op = "msg", !.cid = cid, !.h = h,
                                   !.msg = m, !.preAuth = obj[h].authenticated,
                                   !.preActivity = obj[h].lastActivity,
                                   !.preInfo = obj[h].clientInfo,
                                   !.frames = FramesOf(h, D.reply, ok),
                                   !.calls = D.calls, !.threw = rejects,
                                   !.dispatched = D.dispatched,
                                   !.ended = W1.e, !.endThrew = W1.x]
                     /\ idle' = Quiet([idle EXCEPT ![h] = 0], connections')
             /\ UNCHANGED <<now, cbs>>
  /\ UNCHANGED heartbeatInterval

\* ------------------------------------------- the suspended tools/call handler
\* Variant: the result of validateToken is not looked at.
AfterValidateUnchecked(req, valid) ==
  IF req.p.name = "unknown"
  THEN [reply |-> ResultReply(req.id, "toolResult", TRUE),
        calls |-> {"executeTool"}, stage |-> "done"]
  ELSE [reply |-> NoReply, calls |-> {"executeTool"}, stage |-> "executing"]

\* handleToolsCall from the resolution of validateToken to its return or to
\* the await inside executeTool; executeTool throws for an unregistered name
\* and the handler's catch turns that into an isError result.
AfterValidate(req, valid) ==
  IF ~valid
  THEN [reply |-> ErrorReply(req.id, AUTHENTICATION_ERROR), calls |-> {},
        stage |-> "done"]
  ELSE IF req.p.name = "unknown"
  THEN [reply |-> ResultReply(req.id, "toolResult", TRUE),
        calls |-> {"executeTool"}, stage |-> "done"]
  ELSE [reply |-> NoReply, calls |-> {"executeTool"}, stage |-> "executing"]

\* Variant: a failed execution reported as an envelope-level error.
AfterExecuteEnvelopeError(req, success) ==
  [reply |-> IF success THEN ResultReply(req.id, "toolResult", FALSE)
             ELSE ErrorReply(req.id, INTERNAL_ERROR),
   calls |-> {}, stage |-> "done"]

\* Variant: a failed execution is invoked once more.
AfterExecuteRetries(req, success) ==
  IF success
  THEN [reply |-> ResultReply(req.id, "toolResult", FALSE), calls |-> {},
        stage |-> "done"]
  ELSE [reply |-> NoReply, calls |-> {"executeTool"}, stage |-> "executing"]

\* executeTool's downstream call resolved or rejected; executeTool returns
\* a result flagged isError on rejection.
AfterExecute(req, success) ==
  [reply |-> ResultReply(req.id, "toolResult", ~success), calls |-> {},
   stage |-> "done"]

Without(s, k) == SubSeq(s, 1, k - 1) \o SubSeq(s, k + 1, Len(s))

Resume(k, R, opname, outcome) ==
  LET pk == pending[k]
      h == pk.h
  IN /\ \E ok \in (IF R.reply.kind = "none" THEN {TRUE} ELSE WriteOutcomes(h)) :
          LET W0 == World
              W1 == IF R.reply.kind = "none" THEN W0
                    ELSE SendMessage(W0, h, ok, now)
          IN /\ connections' = W1.c
             /\ pending' = IF R.stage = "done"
                           THEN Without(pending, k)
                           ELSE [pending EXCEPT ![k].stage = R.stage]
             /\ obj' = Collect(W1.o, connections', cbs, pending')
             /\ broken' = Forget(broken, connections', pending')
             /\ last' = [NoLast EXCEPT !.op = opname, !.cid = obj[h].id, !.h = h,
                           !.msg = pk.req, !.preAuth = obj[h].authenticated,
                           !.frames = FramesOf(h, R.reply, ok),
                           !.calls = R.calls, !.outcome = outcome,
                           !.ended = W1.e, !.endThrew = W1.x]
             /\ idle' = Quiet(idle, connections')
     /\ UNCHANGED <<now, cbs, heartbeatInterval>>

ValidateResolved(k, valid) ==
  /\ Step
  /\ k \in 1..Len(pending)
  /\ pending[k].stage = "validating"
  /\ Resume(k, AfterValidate(pending[k].req, valid), "validateResolved", valid)

ExecuteResolved(k, success) ==
  /\ Step
  /\ k \in 1..Len(pending)
  /\ pending[k].stage = "executing"
  /\ Resume(k, AfterExecute(pending[k].req, success), "executeResolved", success)

\* --------------------------------------------------------- heartbeat timer
\* Variant: a connection idle for exactly the timeout counts as stale.
IsStaleInclusive(elapsed) == elapsed >= connectionTimeout

\* `timeSinceLastActivity > timeout`
IsStale(elapsed) == elapsed > connectionTimeout

RECURSIVE Ascending(_)
Ascending(S) ==
  IF S = {} THEN <<>>
  ELSE LET m == CHOOSE x \in S : \A y \in S : x <= y
       IN <<m>> \o Ascending(S \ {m})

\* The connection ids cleanupStaleConnections removes.
StaleIds(c, o, t) ==
  {i \in ConnIds : c[i] # 0 /\ IsStale(t - o[c[i]].lastActivity)}

\* removeConnection for every id of a set.
RECURSIVE RemoveAll(_, _)
RemoveAll(W, ids) ==
  IF ids = {} THEN W
  ELSE LET i == CHOOSE x \in ids : \A y \in ids : x <= y
       IN RemoveAll(RemoveConnection(W, i), ids \ {i})

\* Variant: deleting the entry being iterated makes the iteration pass over
\* the entry after it.
SendHeartbeatSkipsAfterRemoval(W, failing, t) ==
  LET W1 == RemoveAll(W, failing)
      skipped == {i \in ConnIds : i - 1 \in failing}
  IN [W1 EXCEPT !.o = [h \in Handles |->
                         IF \E i \in ConnIds \ skipped : W1.c[i] = h
                         THEN [W1.o[h] EXCEPT !.lastActivity = t]
                         ELSE W1.o[h]]]

\* sendHeartbeat: one sendMessage per registry entry; `failing` are the ids
\* whose write throws.
SendHeartbeat(W, failing, t) ==
  LET W1 == RemoveAll(W, failing)
  IN [W1 EXCEPT !.o = [h \in Handles |->
                         IF \E i \in ConnIds : W1.c[i] = h
                         THEN [W1.o[h] EXCEPT !.lastActivity = t]
                         ELSE W1.o[h]]]

\* Variant: the callback sends the keep-alives before it cleans up.
TickHeartbeatFirst ==
  /\ Step
  /\ heartbeatInterval
  /\ LET registered == {i \in ConnIds : connections[i] # 0}
         failing == {i \in registered : ~WriteOk(connections[i])}
         W1 == SendHeartbeat(World, failing, now)
         stale == StaleIds(W1.c, W1.o, now)
         W2 == RemoveAll(W1, stale)
     IN      /\ connections' = W2.c
             /\ obj' = Collect(W2.o, connections', cbs, pending)
             /\ broken' = Forget(broken, connections', pending)
             /\ last' = [NoLast EXCEPT !.op = "tick", !.evicted = stale,
                           !.ended = W2.e, !.endThrew = W2.x,
                           !.frames =
                             [k \in 1..Cardinality(registered) |->
                                LET i == Ascending(registered)[k]
                                IN Frame(connections[i], "notification", "none", 0,
                                         "heartbeat", FALSE, i \notin failing)]]
             /\ idle' = Quiet(idle, connections')
             /\ UNCHANGED <<now, cbs, pending, heartbeatInterval>>

\* One firing of the setInterval callback of startHeartbeat.
Tick ==
  /\ Step
  /\ heartbeatInterval
  /\ LET stale == StaleIds(connections, obj, now)
         W1 == RemoveAll(World, stale)
         remaining == {i \in ConnIds : W1.c[i] # 0}
         failing == {i \in remaining : ~WriteOk(W1.c[i])}
         W2 == SendHeartbeat(W1, failing, now)
     IN      /\ connections' = W2.c
             /\ obj' = Collect(W2.o, connections', cbs, pending)
             /\ broken' = Forget(broken, connections', pending)
             /\ last' = [NoLast EXCEPT !.op = "tick", !.evicted = stale,
                           !.ended = W2.e, !.endThrew = W2.x,
                           !.frames =
                             [k \in 1..Cardinality(remaining) |->
                                LET i == Ascending(remaining)[k]
                                IN Frame(W1.c[i], "notification", "none", 0,
                                         "heartbeat", FALSE, i \notin failing)]]
             /\ idle' = Quiet(idle, connections')
             /\ UNCHANGED <<now, cbs, pending, heartbeatInterval>>

\* ---------------------------------------------------------- transport events
\* The response's 'close' event: fires once.
TransportClose(h) ==
  /\ Step
  /\ cbs[h]
  /\ LET W1 == RemoveConnection(World, obj[h].id)
     IN /\ connections' = W1.c
        /\ cbs' = [cbs EXCEPT ![h] = FALSE]
        /\ obj' = Collect(W1.o, connections', cbs', pending)
        /\ broken' = Forget(broken, connections', pending)
        /\ last' = [NoLast EXCEPT !.op = "close", !.cid = obj[h].id, !.h = h,
                      !.ended = W1.e, !.endThrew = W1.x]
        /\ idle' = Quiet(idle, connections')
  /\ UNCHANGED <<now, pending, heartbeatInterval>>

\* The response's 'error' event; a 'close' still follows.
TransportError(h) ==
  /\ Step
  /\ cbs[h]
  /\ LET W1 == RemoveConnection(World, obj[h].id)
     IN /\ connections' = W1.c
        /\ obj' = Collect(W1.o, connections', cbs, pending)
        /\ broken' = Forget(broken, connections', pending)
        /\ last' = [NoLast EXCEPT !.op = "error", !.cid = obj[h].id, !.h = h,
                      !.ended = W1.e, !.endThrew = W1.x]
        /\ idle' = Quiet(idle, connections')
  /\ UNCHANGED <<now, cbs, pending, heartbeatInterval>>

\* From now on writes to the object's response throw.
BreakTransport(h) ==
  /\ Step
  /\ Writable(h, connections, pending)
  /\ ~broken[h]
  /\ broken' = [broken EXCEPT ![h] = TRUE]
  /\ last' = [NoLast EXCEPT !.op = "break", !.cid = obj[h].id, !.h = h]
  /\ UNCHANGED <<now, connections, obj, cbs, pending, heartbeatInterval, idle>>

\* The clock advances between events.
AdvanceClock ==
  /\ Step
  /\ now < MaxTime
  /\ now' = now + 1
  /\ last' = [NoLast EXCEPT !.op = "clock"]
  /\ idle' = [h \in Handles |->
               IF (\E i \in ConnIds : connections[i] = h) /\ idle[h] < IdleCap
               THEN idle[h] + 1 ELSE idle[h]]
  /\ UNCHANGED <<connections, obj, cbs, broken, pending, heartbeatInterval>>

\* The callback returns to the event loop: what it did is no longer looked
\* at when the next event is taken.
Return ==
  /\ last.op # "init"
  /\ last' = NoLast
  /\ UNCHANGED <<now, connections, obj, cbs, broken, pending, steps,
                 heartbeatInterval, idle>>

\* --------------------------------------------------------------- shutdown
\* Variant: shutdown closes the connections and leaves the timer running.
ShutdownKeepsTimer ==
  /\ Step
  /\ LET W1 == RemoveAll(World, {i \in ConnIds : connections[i] # 0})
     IN /\ connections' = W1.c
        /\ obj' = Collect(W1.o, connections', cbs, pending)
        /\ broken' = Forget(broken, connections', pending)
        /\ last' = [NoLast EXCEPT !.op = "shutdown",
                      !.preTimer = heartbeatInterval,
                      !.ended = W1.e, !.endThrew = W1.x]
        /\ idle' = Quiet(idle, connections')
  /\ UNCHANGED <<now, cbs, pending, heartbeatInterval>>

\* shutdown(): clears the timer if it is set, then removes every connection
\* of the registry.
Shutdown ==
  /\ Step
  /\ heartbeatInterval' = FALSE
  /\ LET W1 == RemoveAll(World, {i \in ConnIds : connections[i] # 0})
     IN /\ connections' = W1.c
        /\ obj' = Collect(W1.o, connections', cbs, pending)
        /\ broken' = Forget(broken, connections', pending)
        /\ last' = [NoLast EXCEPT !.op = "shutdown",
                      !.preTimer = heartbeatInterval,
                      !.ended = W1.e, !.endThrew = W1.x]
        /\ idle' = Quiet(idle, connections')
  /\ UNCHANGED <<now, cbs, pending>>

Next ==
  \/ \E cid \in CallerIds : AddConnection(cid)
  \/ \E cid \in CallerIds : \E m \in MessagesFor(cid) : HandleMessage(cid, m)
  \/ \E k \in 1..MaxPending, valid \in BOOLEAN : ValidateResolved(k, valid)
  \/ \E k \in 1..MaxPending, success \in BOOLEAN : ExecuteResolved(k, success)
  \/ Tick
  \/ \E h \in Handles : TransportClose(h)
  \/ \E h \in Handles : TransportError(h)
  \/ \E h \in Handles : BreakTransport(h)
  \/ Shutdown
  \/ AdvanceClock
  \/ Return

Spec == Init /\ [][Next]_vars

\* ================================================================== claims

\* C1: a connection's `authenticated` turns true only on a connection whose
\* `initialize` request with valid params has already been answered (its
\* client info is recorded); an `initialized` on a connection that never
\* completed `initialize` does not make it Ready.
C1_ReadyOnlyAfterInitialize ==
  [][\A h \in Handles :
       (~obj[h].authenticated /\ obj'[h].authenticated)
         => obj[h].clientInfo # "none"]_vars

\* C2 as stated: on a connection that is not Ready every request whose
\* method is not initialize, ping or initialized is answered with
\* AUTHENTICATION_ERROR.
C2_AnyOtherMethodIsAuthError ==
  (/\ last.op = "msg" /\ last.h # 0
   /\ IsValidMCPMessage(last.msg)
   /\ last.msg.method \notin {"", "initialize", "initialized", "ping"}
   /\ ~last.preAuth)
  => /\ Len(last.frames) = 1
     /\ last.frames[1].kind = "error"
     /\ last.frames[1].code = AUTHENTICATION_ERROR

\* C2 amended: on a connection that is not Ready a request for one of the six
\* guarded methods is answered with AUTHENTICATION_ERROR and a request for a
\* method the dispatcher has no case for with METHOD_NOT_FOUND; either way
\* no field of the connection other than lastActivity changes, no handler is
\* suspended, and neither the tool registry nor validateToken is called.
C2_UnreadyRejectedWithoutEffect ==
  [][(/\ last'.op = "msg" /\ last'.h # 0
      /\ IsValidMCPMessage(last'.msg)
      /\ last'.msg.method \notin {"", "initialize", "initialized", "ping"}
      /\ ~last'.preAuth)
     => /\ Len(last'.frames) = 1
        /\ last'.frames[1].h = last'.h
        /\ last'.frames[1].kind = "error"
        /\ last'.frames[1].code =
             IF last'.msg.method \in GuardedMethods
             THEN AUTHENTICATION_ERROR ELSE METHOD_NOT_FOUND
        /\ last'.calls = {}
        /\ pending' = pending
        /\ obj'[last'.h] =
             [obj[last'.h] EXCEPT !.lastActivity = obj'[last'.h].lastActivity]]_vars

\* C2 witness: a tools/call on a connection that is not Ready was answered
\* with AUTHENTICATION_ERROR.
C2_Witness ==
  /\ last.op = "msg" /\ last.h # 0
  /\ last.msg.method = "tools/call"
  /\ ~last.preAuth
  /\ Len(last.frames) = 1
  /\ last.frames[1].code = AUTHENTICATION_ERROR

\* C3: executeTool is called only by a handler resuming from a validateToken
\* that returned true, for a request that carried an access_token; a request
\* without a token never suspends on the credential check, and a credential
\* check that returned false ends the request with AUTHENTICATION_ERROR and
\* no call.
C3_ExecuteOnlyAfterValidToken ==
  /\ "executeTool" \in last.calls
       => /\ last.op = "validateResolved"
          /\ last.outcome
          /\ last.msg.p.token
  /\ (last.op = "validateResolved" /\ ~last.outcome)
       => /\ last.calls = {}
          /\ Len(last.frames) = 1
          /\ last.frames[1].kind = "error"
          /\ last.frames[1].code = AUTHENTICATION_ERROR
  /\ \A k \in 1..Len(pending) : pending[k].req.p.token
  /\ (last.op = "msg" /\ last.msg.method = "tools/call" /\ ~last.msg.p.token)
       => last.calls = {}

\* C3 witness: validateToken returned false for a suspended tools/call and
\* the request was answered with AUTHENTICATION_ERROR.
C3_Witness ==
  /\ last.op = "validateResolved"
  /\ ~last.outcome
  /\ last.calls = {}
  /\ Len(last.frames) = 1
  /\ last.frames[1].code = AUTHENTICATION_ERROR

\* C4: a tools/call whose execution fails (executeTool throws for an unknown
\* tool name, or the downstream call fails inside it) is answered with one
\* Response for the request's id that has a result flagged isError and no
\* error field.
C4_ExecutionFailureIsContentError ==
  (\/ (last.op = "validateResolved" /\ last.outcome
       /\ last.msg.p.name = "unknown")
   \/ (last.op = "executeResolved" /\ ~last.outcome))
  => /\ Len(last.frames) = 1
     /\ last.frames[1].h = last.h
     /\ last.frames[1].kind = "result"
     /\ last.frames[1].code = 0
     /\ last.frames[1].isError
     /\ last.frames[1].id = last.msg.id

\* C4 witness: the downstream call of a validated tools/call failed and the
\* reply is an isError result.
C4_Witness ==
  /\ last.op = "executeResolved"
  /\ ~last.outcome
  /\ Len(last.frames) = 1
  /\ last.frames[1].kind = "result"
  /\ last.frames[1].isError

\* C5: on a Ready connection prompts/get with a name the registry does not
\* know is answered with one envelope-level error INVALID_PROMPT, never with
\* a result.
C5_UnknownPromptIsEnvelopeError ==
  (/\ last.op = "msg" /\ last.h # 0
   /\ IsValidMCPMessage(last.msg)
   /\ last.msg.method = "prompts/get"
   /\ last.msg.p.name = "unknown"
   /\ last.preAuth)
  => /\ Len(last.frames) = 1
     /\ last.frames[1].kind = "error"
     /\ last.frames[1].code = INVALID_PROMPT
     /\ ~last.frames[1].isError

\* C5 witness: a Ready connection asked for an unknown prompt and got
\* INVALID_PROMPT.
C5_Witness ==
  /\ last.op = "msg" /\ last.h # 0
  /\ last.msg.method = "prompts/get"
  /\ last.msg.p.name = "unknown"
  /\ last.preAuth
  /\ Len(last.frames) = 1
  /\ last.frames[1].code = INVALID_PROMPT

\* C6: the registry never holds more than maxConnections connections, and
\* addConnection called when it holds maxConnections is rejected: no
\* connection is created or replaced, no frame is pushed, no transport is
\* ended and no close/error callback is armed.
C6_AdmissionCapped ==
  /\ [](Size(connections) <= maxConnections)
  /\ [][(last'.op \in {"add", "reject"}
         /\ Size(connections) >= maxConnections)
        => /\ last'.op = "reject"
           /\ last'.frames = <<>>
           /\ last'.ended = {}
           /\ UNCHANGED <<connections, obj, cbs, broken, pending>>]_vars

\* C6 witness: an admission was rejected with the registry full.
C6_Witness ==
  /\ last.op = "reject"
  /\ Size(connections) = maxConnections

\* C7 as stated: a tick removes exactly the connections idle for longer than
\* connectionTimeout.
C7_TickRemovesExactlyTheStale ==
  [][last'.op = "tick"
     => \A i \in ConnIds :
          connections[i] # 0
            => ((now - obj[connections[i]].lastActivity > connectionTimeout)
                  <=> connections'[i] = 0)]_vars

\* C7 amended: a tick removes every connection idle for longer than
\* connectionTimeout and ends its transport, and a connection not idle for
\* longer than that stays in the registry unless the keep-alive write to it
\* throws.
C7_TickEvictsStale ==
  [][last'.op = "tick"
     => \A i \in ConnIds :
          connections[i] # 0
            => IF now - obj[connections[i]].lastActivity > connectionTimeout
               THEN /\ connections'[i] = 0
                    /\ connections[i] \in last'.ended
                    /\ i \in last'.evicted
               ELSE /\ i \notin last'.evicted
                    /\ \/ connections'[i] = connections[i]
                       \/ \E k \in 1..Len(last'.frames) :
                            /\ last'.frames[k].h = connections[i]
                            /\ ~last'.frames[k].ok]_vars

\* C7 witness: a tick evicted a stale connection and kept a fresh one.
C7_Witness ==
  /\ last.op = "tick"
  /\ last.evicted # {}
  /\ Size(connections) > 0

\* C8: a tick never writes lastActivity: a connection that survives a tick
\* has the lastActivity it had before the tick.
C8_TickLeavesLastActivity ==
  [][last'.op = "tick"
     => \A i \in ConnIds :
          (connections[i] # 0 /\ connections'[i] = connections[i])
            => obj'[connections[i]].lastActivity
                 = obj[connections[i]].lastActivity]_vars

\* C9: a ping is answered with one successful Response carrying a timestamp
\* and the request's id, whether or not the connection is Ready, and
\* handling it leaves `authenticated` as it was.
C9_PingAlwaysAnswered ==
  [][(/\ last'.op = "msg" /\ last'.h # 0
      /\ IsValidMCPMessage(last'.msg)
      /\ last'.msg.method = "ping")
     => /\ Len(last'.frames) = 1
        /\ last'.frames[1].h = last'.h
        /\ last'.frames[1].kind = "result"
        /\ last'.frames[1].tag = "timestamp"
        /\ last'.frames[1].id = last'.msg.id
        /\ obj'[last'.h].authenticated = obj[last'.h].authenticated]_vars

\* C9 witness: a ping with an id on a connection that is not Ready was
\* answered with a timestamp for that id.
C9_Witness ==
  /\ last.op = "msg" /\ last.h # 0
  /\ last.msg.method = "ping" /\ last.msg.jsonrpc
  /\ last.msg.id = "n1"
  /\ ~last.preAuth
  /\ Len(last.frames) = 1
  /\ last.frames[1].kind = "result"
  /\ last.frames[1].id = "n1"

\* C10: a request whose method is none of the nine handled names is
\* answered with METHOD_NOT_FOUND, on a Ready connection and on one that is
\* not.
C10_UnknownMethodNotFound ==
  (/\ last.op = "msg" /\ last.h # 0
   /\ IsValidMCPMessage(last.msg)
   /\ last.msg.method # ""
   /\ last.msg.method \notin HandledMethods)
  => /\ Len(last.frames) = 1
     /\ last.frames[1].kind = "error"
     /\ last.frames[1].code = METHOD_NOT_FOUND

\* C10 witness: an unhandled method on a connection that is not Ready was
\* answered with METHOD_NOT_FOUND.
C10_Witness ==
  /\ last.op = "msg" /\ last.h # 0
  /\ last.msg.method = "resources/subscribe"
  /\ ~last.preAuth
  /\ Len(last.frames) = 1
  /\ last.frames[1].code = METHOD_NOT_FOUND

\* C11 as stated: a payload that is not parseable JSON, on a registered
\* connection, is answered with one PARSE_ERROR response that carries no id.
C11_ParseErrorWithoutId ==
  (last.op = "msg" /\ last.h # 0 /\ last.msg.shape = "unparseable")
  => /\ Len(last.frames) = 1
     /\ last.frames[1].kind = "error"
     /\ last.frames[1].code = PARSE_ERROR
     /\ last.frames[1].id = "none"

\* C11 amended: a payload that is not parseable JSON, on a registered
\* connection, is answered with exactly one error response, of code
\* PARSE_ERROR, whose id is the sentinel "unknown"; nothing is called and no
\* handler is suspended.
C11_ParseErrorToSentinel ==
  (last.op = "msg" /\ last.h # 0 /\ last.msg.shape = "unparseable")
  => /\ Len(last.frames) = 1
     /\ last.frames[1].h = last.h
     /\ last.frames[1].kind = "error"
     /\ last.frames[1].code = PARSE_ERROR
     /\ last.frames[1].id = "unknown"
     /\ last.calls = {}

\* C11 witness: an unparseable payload on a registered connection was answered
\* with PARSE_ERROR and the write returned.
C11_Witness ==
  /\ last.op = "msg" /\ last.h # 0
  /\ last.msg.shape = "unparseable"
  /\ Len(last.frames) = 1
  /\ last.frames[1].code = PARSE_ERROR
  /\ last.frames[1].ok

\* C12: an envelope-level error response sent for a request that supplied an
\* id carries exactly that id, the ids 0 and "" included; the sentinel
\* "unknown" is the id only when the request carried none.
C12_ErrorCarriesRequestId ==
  (/\ last.op \in {"msg", "validateResolved", "executeResolved"}
   /\ last.h # 0
   /\ Len(last.frames) = 1
   /\ last.frames[1].kind = "error")
  => last.frames[1].id =
       IF last.msg.id = "none" THEN "unknown" ELSE last.msg.id

\* The connection objects the registry holds.
Registered(c, o) == {h \in Handles : o[h].id # 0 /\ c[o[h].id] = h}

\* C13: the authenticated flag of a connection object never goes from true
\* to false while the registry holds the object, whatever the step (a repeated
\* initialize, any request, an error path, a timer tick), and it goes from
\* false to true only in the step that handles `initialized` on that object.
C13_AuthenticatedNeverReverts ==
  [][\A h \in Registered(connections, obj) \cap Registered(connections', obj') :
       /\ obj[h].authenticated => obj'[h].authenticated
       /\ (~obj[h].authenticated /\ obj'[h].authenticated)
            => /\ last'.op = "msg" /\ last'.h = h
               /\ last'.msg.method = "initialized"]_vars

\* C13 witness: a Ready connection was sent a successful initialize again and
\* is still Ready and registered.
C13_Witness ==
  /\ last.op = "msg" /\ last.h # 0
  /\ last.msg.method = "initialize"
  /\ last.preAuth
  /\ Len(last.frames) = 1 /\ last.frames[1].kind = "result"
  /\ last.h \in Registered(connections, obj)
  /\ obj[last.h].authenticated

\* C14: addConnection with an id the registry already holds leaves the
\* existing entry alone: the same connection object stays registered under
\* the id, with its fields as they were.
C14_PresentIdNotReplaced ==
  [][(last'.op \in {"add", "reject"} /\ connections[last'.cid] # 0)
     => /\ connections'[last'.cid] = connections[last'.cid]
        /\ obj'[connections[last'.cid]].authenticated
             = obj[connections[last'.cid]].authenticated
        /\ obj'[connections[last'.cid]].clientInfo
             = obj[connections[last'.cid]].clientInfo]_vars

\* C15: removeConnection for an id the registry does not hold changes no
\* entry and no registered object and ends no transport; for an id it holds
\* it calls end() on that entry's response once and deletes that entry and no
\* other, also when end() throws. (The callers here are the close and error
\* callbacks, which do nothing else.)
C15_RemoveConnectionIdempotent ==
  [][last'.op \in {"close", "error"}
     => IF connections[last'.cid] = 0
        THEN /\ connections' = connections
             /\ last'.ended = {}
             /\ \A h \in Registered(connections, obj) : obj'[h] = obj[h]
        ELSE /\ connections' = [connections EXCEPT ![last'.cid] = 0]
             /\ last'.ended = {connections[last'.cid]}
             /\ \A h \in Registered(connections', obj') : obj'[h] = obj[h]]_vars

\* C15 witness: the error callback removed a registered connection whose
\* response.end() threw, and the entry is gone.
C15_Witness ==
  /\ last.op \in {"close", "error"}
  /\ last.ended = {last.h}
  /\ last.endThrew = {last.h}
  /\ connections[last.cid] = 0

\* C16: for a tools/call on a Ready connection the first failing check
\* decides the reply: no params or no tool name is INVALID_PARAMS, whether or
\* not a token is there; otherwise no access_token is AUTHENTICATION_ERROR;
\* otherwise the handler waits for validateToken, and a token it rejects is
\* AUTHENTICATION_ERROR; each of them an error response, not a result.
C16_ToolsCallCheckOrder ==
  /\ (/\ last.op = "msg" /\ last.h # 0
      /\ IsValidMCPMessage(last.msg)
      /\ last.msg.method = "tools/call"
      /\ last.preAuth)
     => IF ~last.msg.p.present \/ last.msg.p.name = "none"
        THEN /\ Len(last.frames) = 1
             /\ last.frames[1].kind = "error"
             /\ last.frames[1].code = INVALID_PARAMS
             /\ last.calls = {}
        ELSE IF ~last.msg.p.token
        THEN /\ Len(last.frames) = 1
             /\ last.frames[1].kind = "error"
             /\ last.frames[1].code = AUTHENTICATION_ERROR
             /\ last.calls = {}
        ELSE /\ last.frames = <<>>
             /\ last.calls = {"validateToken"}
  /\ (last.op = "validateResolved" /\ ~last.outcome)
     => /\ Len(last.frames) = 1
        /\ last.frames[1].kind = "error"
        /\ ~last.frames[1].isError
        /\ last.frames[1].code = AUTHENTICATION_ERROR

\* C16 witness: a tools/call with neither tool name nor token on a Ready
\* connection was answered with INVALID_PARAMS.
C16_Witness ==
  /\ last.op = "msg" /\ last.h # 0
  /\ last.msg.method = "tools/call"
  /\ last.preAuth
  /\ ~last.msg.p.present /\ ~last.msg.p.token
  /\ Len(last.frames) = 1
  /\ last.frames[1].code = INVALID_PARAMS

C18_InitializeRecordsAndStaysUnready ==
  [][/\ (/\ last'.op = "msg" /\ last'.h # 0
         /\ IsValidMCPMessage(last'.msg)
         /\ last'.msg.method = "initialize")
        => /\ obj'[last'.h].authenticated = obj[last'.h].authenticated
           /\ Len(last'.frames) = 1
           /\ IF /\ last'.msg.p.present /\ last'.msg.p.protocolVersion
                 /\ last'.msg.p.clientInfo # "none"
              THEN /\ last'.frames[1].kind = "result"
                   /\ last'.frames[1].tag = "initialize"
                   /\ last'.frames[1].id = last'.msg.id
                   /\ InitializeResult.protocolVersion = "config.mcp.protocolVersion"
                   /\ InitializeResult.capabilities.tools.listChanged
                   /\ ~InitializeResult.capabilities.resources.subscribe
                   /\ InitializeResult.capabilities.resources.listChanged
                   /\ InitializeResult.capabilities.prompts.listChanged
                   /\ obj'[last'.h].clientInfo = last'.msg.p.clientInfo
                   /\ obj'[last'.h].capabilities = last'.msg.p.capabilities
              ELSE /\ last'.frames[1].kind = "error"
                   /\ last'.frames[1].code = INVALID_PARAMS
                   /\ obj'[last'.h].clientInfo = obj[last'.h].clientInfo
                   /\ obj'[last'.h].capabilities = obj[last'.h].capabilities
     /\ (/\ last'.op = "msg" /\ last'.h # 0
         /\ IsValidMCPMessage(last'.msg)
         /\ last'.msg.method = "tools/list"
         /\ ~obj[last'.h].authenticated)
        => /\ Len(last'.frames) = 1
           /\ last'.frames[1].kind = "error"
           /\ last'.frames[1].code = AUTHENTICATION_ERROR]_vars

\* C18 witness: a connection that has stored a client's info but was never
\* sent `initialized` had its tools/list answered with AUTHENTICATION_ERROR.
C18_Witness ==
  /\ last.op = "msg" /\ last.h # 0
  /\ last.msg.method = "tools/list"
  /\ ~last.preAuth
  /\ obj[last.h].clientInfo # "none"
  /\ Len(last.frames) = 1
  /\ last.frames[1].code = AUTHENTICATION_ERROR

\* C19: handling `initialized` writes no frame to the connection's transport,
\* neither a result nor an error, whether the connection was Ready before or
\* not, and ends no transport.
C19_InitializedPushesNothing ==
  (/\ last.op = "msg" /\ last.h # 0
   /\ IsValidMCPMessage(last.msg)
   /\ last.msg.method = "initialized")
  => /\ last.frames = <<>>
     /\ last.ended = {}
     /\ last.calls = {}

\* C19 witness: `initialized` was handled on a connection that was Ready
\* already, and nothing was written.
C19_Witness ==
  /\ last.op = "msg" /\ last.h # 0
  /\ last.msg.method = "initialized"
  /\ last.preAuth
  /\ last.frames = <<>>

\* C20: while a tools/call handler of one connection is suspended on
\* validateToken or executeTool, the idle event loop can hand over a message
\* for any other registered connection and fire the timer (as long as it is
\* set); such a message is
\* handled to its end in its own step (a ping is answered with its result)
\* and neither it nor the tick resolves or disturbs the suspended handler.
C20_OtherSessionsNotBlocked ==
  /\ [](\A cid \in ConnIds :
          (/\ last.op = "init" /\ steps < MaxSteps
           /\ pending # <<>>
           /\ connections[cid] # 0
           /\ \A k \in 1..Len(pending) : pending[k].h # connections[cid])
          => /\ ENABLED HandleMessage(cid, Obj("ping", "n1", NoParams))
             /\ heartbeatInterval => ENABLED Tick)
  /\ [][(/\ pending # <<>>
         /\ \/ last'.op = "tick"
            \/ /\ last'.op = "msg" /\ last'.h # 0
               /\ \A k \in 1..Len(pending) : pending[k].h # last'.h
               /\ last'.msg = Obj("ping", "n1", NoParams))
        => /\ pending' = pending
           /\ last'.op = "msg"
                => /\ Len(last'.frames) = 1
                   /\ last'.frames[1].h = last'.h
                   /\ last'.frames[1].kind = "result"
                   /\ last'.frames[1].id = "n1"]_vars

\* C20 witness: a ping on one connection was answered while the tools/call
\* handler of another connection was still suspended.
C20_Witness ==
  /\ last.op = "msg" /\ last.h # 0
  /\ last.msg.method = "ping"
  /\ pending # <<>>
  /\ \A k \in 1..Len(pending) : pending[k].h # last.h
  /\ Len(last.frames) = 1
  /\ last.frames[1].kind = "result"
  /\ last.frames[1].ok

\* C21: a payload JSON.parse accepts is taken for dispatch exactly when it is
\* an object whose jsonrpc is "2.0" and which has a non-empty method, a result
\* or an error: such a message with a method reaches the switch of
\* handleRequest, one without a method is only logged, and it is never
\* answered with INVALID_REQUEST; every other parsed payload is answered with
\* one INVALID_REQUEST error, reaches no handler and causes no call.
C21_ValidIffTaggedAndTyped ==
  (last.op = "msg" /\ last.h # 0 /\ last.msg.shape # "unparseable")
  => IF /\ last.msg.shape = "object"
        /\ last.msg.jsonrpc
        /\ (last.msg.method # "" \/ last.msg.hasResult \/ last.msg.hasError)
     THEN /\ last.dispatched <=> last.msg.method # ""
          /\ ~last.dispatched => last.frames = <<>>
          /\ \A k \in 1..Len(last.frames) :
               last.frames[k].code # INVALID_REQUEST
     ELSE /\ ~last.dispatched
          /\ Len(last.frames) = 1
          /\ last.frames[1].h = last.h
          /\ last.frames[1].kind = "error"
          /\ last.frames[1].code = INVALID_REQUEST
          /\ last.calls = {}

\* C21 witness: an object with a method but without the "2.0" tag was answered
\* with INVALID_REQUEST and reached no handler.
C21_Witness ==
  /\ last.op = "msg" /\ last.h # 0
  /\ last.msg.shape = "object" /\ ~last.msg.jsonrpc
  /\ last.msg.method # ""
  /\ ~last.dispatched
  /\ Len(last.frames) = 1
  /\ last.frames[1].code = INVALID_REQUEST

\* C22: the lastActivity of a connection object never decreases, nor does the
\* lastActivity found under a connection id; a message handled for a
\* registered connection (valid, invalid or unparseable) sets its lastActivity
\* to the current time, and so does every write to a connection that returns.
C22_LastActivityMonotone ==
  [][/\ now' >= now
     /\ \A h \in Handles :
          (obj[h].id # 0 /\ obj'[h].id # 0)
            => obj'[h].lastActivity >= obj[h].lastActivity
     /\ \A i \in ConnIds :
          (connections[i] # 0 /\ connections'[i] # 0)
            => obj'[connections'[i]].lastActivity
                 >= obj[connections[i]].lastActivity
     /\ (last'.op = "msg" /\ last'.h # 0 /\ obj'[last'.h].id # 0)
          => obj'[last'.h].lastActivity = now'
     /\ \A k \in 1..Len(last'.frames) :
          (last'.frames[k].ok /\ obj'[last'.frames[k].h].id # 0)
            => obj'[last'.frames[k].h].lastActivity = now']_vars

\* C22 witness: after the clock had advanced, the reply of a resumed
\* tools/call was written to a connection that is still registered, and its
\* lastActivity is the current time.
C22_Witness ==
  /\ last.op = "validateResolved"
  /\ now > 0
  /\ Len(last.frames) = 1 /\ last.frames[1].ok
  /\ last.h \in Registered(connections, obj)
  /\ obj[last.h].lastActivity = now

\* The frames of the last step handed to sendMessage for an object.
FramesTo(h, frames) == {k \in 1..Len(frames) : frames[k].h = h}

\* C23: a tick evicts the connections idle for longer than connectionTimeout
\* and then calls sendMessage with one keep-alive notification for every
\* connection the registry still holds: none for a connection evicted in the
\* tick (its transport was ended instead), exactly one for every other
\* registered connection, and none for anything the registry does not hold.
C23_KeepAliveAfterEviction ==
  [][last'.op = "tick"
     => /\ last'.evicted =
             {i \in ConnIds : /\ connections[i] # 0
                              /\ now - obj[connections[i]].lastActivity
                                   > connectionTimeout}
        /\ \A i \in ConnIds :
             connections[i] # 0
               => IF i \in last'.evicted
                  THEN /\ FramesTo(connections[i], last'.frames) = {}
                       /\ connections[i] \in last'.ended
                  ELSE Cardinality(FramesTo(connections[i], last'.frames)) = 1
        /\ \A k \in 1..Len(last'.frames) :
             /\ last'.frames[k].kind = "notification"
             /\ last'.frames[k].tag = "heartbeat"
             /\ \E i \in ConnIds : connections[i] = last'.frames[k].h]_vars

\* C23 witness: a tick evicted one connection and pushed a keep-alive, whose
\* write returned, to another that is still registered.
C23_Witness ==
  /\ last.op = "tick"
  /\ last.evicted # {}
  /\ Len(last.frames) = 1
  /\ last.frames[1].ok
  /\ last.frames[1].h \in Registered(connections, obj)

\* C24: a tick runs to its end whatever was removed before it and whatever it
\* removes itself, a response.end() or a keep-alive write that throws
\* included: it visits no connection twice, puts nothing into the registry,
\* removes exactly the stale connections and those whose keep-alive write
\* threw, and every other connection stays registered as the same object with
\* its handshake state, got its keep-alive written and is not ended; suspended
\* handlers and armed callbacks are left alone.
C24_TickToleratesRemoval ==
  [][last'.op = "tick"
     => /\ \A k1, k2 \in 1..Len(last'.frames) :
             last'.frames[k1].h = last'.frames[k2].h => k1 = k2
        /\ \A i \in ConnIds :
             connections[i] = 0 => connections'[i] = 0
        /\ \A i \in ConnIds :
             connections[i] # 0
               => LET h == connections[i]
                      wrote == \E k \in FramesTo(h, last'.frames) : last'.frames[k].ok
                  IN IF i \in last'.evicted \/ ~wrote
                     THEN connections'[i] = 0 /\ h \in last'.ended
                     ELSE /\ connections'[i] = h
                          /\ h \notin last'.ended
                          /\ obj'[h] = [obj[h] EXCEPT !.lastActivity = now]
        /\ pending' = pending
        /\ cbs' = cbs]_vars

\* C24 witness: in one tick the keep-alive write to one connection threw and
\* removed it, and the keep-alive of another connection was written.
C24_Witness ==
  /\ last.op = "tick"
  /\ \E k1, k2 \in 1..Len(last.frames) :
       /\ ~last.frames[k1].ok
       /\ last.frames[k1].h \in last.ended
       /\ last.frames[k2].ok
       /\ last.frames[k2].h \in Registered(connections, obj)

\* C25: when validateToken or executeTool resolves for a tools/call whose
\* connection the registry no longer holds, the handler goes on with the
\* object it kept: the object is not put back into the registry, at most one
\* frame is written and only to that object's transport, a write that throws
\* is not repeated, and the handler returns (its entry leaves the suspended
\* handlers once it has replied).
C25_ResultOfRemovedSessionDiscarded ==
  [][(/\ last'.op \in {"validateResolved", "executeResolved"}
      /\ connections[last'.cid] # last'.h)
     => /\ \A i \in ConnIds : connections'[i] # last'.h
        /\ \A i \in ConnIds : connections'[i] # 0 => connections'[i] = connections[i]
        /\ Len(last'.frames) <= 1
        /\ \A k \in 1..Len(last'.frames) : last'.frames[k].h = last'.h
        /\ ~last'.threw
        /\ Len(last'.frames) = 1
             => \E k \in 1..Len(pending) :
                  /\ pending[k].h = last'.h
                  /\ pending[k].req = last'.msg
                  /\ pending' = Without(pending, k)]_vars

\* C25 witness: the reply of a tools/call was written, the write returning, to
\* a connection that had been removed while the call was suspended.
C25_Witness ==
  /\ last.op \in {"validateResolved", "executeResolved"}
  /\ last.cid # 0
  /\ connections[last.cid] = 0
  /\ Len(last.frames) = 1
  /\ last.frames[1].ok
  /\ last.ended = {}

\* C26: a write that throws removes the connection written to from the
\* registry, its transport being ended if the registry held it, nothing more
\* is written to that connection in the step, and every other registered
\* connection (one that is neither evicted by the same tick nor failing a write
\* of its own, nor the entry an addConnection has just replaced) stays
\* registered as the same object, is not ended and keeps its handshake state.
C26_FailingWriteRemovesOnlyItsSession ==
  [][\A k \in 1..Len(last'.frames) :
       ~last'.frames[k].ok
         => LET h == last'.frames[k].h
            IN /\ \A i \in ConnIds : connections'[i] # h
               /\ (\E i \in ConnIds : connections[i] = h) => h \in last'.ended
               /\ FramesTo(h, last'.frames) = {k}
               /\ \A i \in ConnIds :
                    (/\ connections[i] # 0
                     /\ connections[i] # h
                     /\ i \notin last'.evicted
                     /\ ~(last'.op = "add" /\ i = last'.cid)
                     /\ \A j \in FramesTo(connections[i], last'.frames) :
                          last'.frames[j].ok)
                    => /\ connections'[i] = connections[i]
                       /\ connections[i] \notin last'.ended
                       /\ obj'[connections[i]].authenticated
                            = obj[connections[i]].authenticated
                       /\ obj'[connections[i]].clientInfo
                            = obj[connections[i]].clientInfo]_vars

\* C27: a valid message that has a method and no id is never answered: no
\* result frame and no error frame is written for it, neither by the step
\* that handles it nor by a later resumption of its handler.
C27_NotificationNeverAnswered ==
  (/\ last.op \in {"msg", "validateResolved", "executeResolved"}
   /\ last.h # 0
   /\ last.msg.shape = "object" /\ last.msg.jsonrpc
   /\ last.msg.method # ""
   /\ last.msg.id = "none")
  => \A k \in 1..Len(last.frames) :
       last.frames[k].kind \notin {"result", "error"}

\* C28: a tools/call request goes through its invocations once and in one
\* direction: validateToken is called only by the step that takes the
\* request, which suspends exactly that request; the resolution of
\* validateToken calls executeTool at most and never validateToken again, and
\* the request either waits for that one execution or leaves the suspended
\* handlers; the resolution of executeTool calls nothing and ends the request;
\* no other step calls anything or touches the suspended handlers.
C28_OneInvocationPerRequest ==
  [][/\ last'.op = "msg"
          => /\ "executeTool" \notin last'.calls
             /\ IF "validateToken" \in last'.calls
                THEN /\ last'.msg.method = "tools/call"
                     /\ pending' = Append(pending, [h |-> last'.h, req |-> last'.msg,
                                                    stage |-> "validating"])
                ELSE pending' = pending
     /\ last'.op = "validateResolved"
          => /\ last'.calls \subseteq {"executeTool"}
             /\ \E k \in 1..Len(pending) :
                  /\ pending[k].stage = "validating"
                  /\ pending[k].req = last'.msg
                  /\ IF "executeTool" \in last'.calls /\ last'.frames = <<>>
                     THEN pending' = [pending EXCEPT ![k].stage = "executing"]
                     ELSE pending' = Without(pending, k)
     /\ last'.op = "executeResolved"
          => /\ last'.calls = {}
             /\ Len(last'.frames) = 1
             /\ \E k \in 1..Len(pending) :
                  /\ pending[k].stage = "executing"
                  /\ pending[k].req = last'.msg
                  /\ pending' = Without(pending, k)
     /\ last'.op \notin {"msg", "validateResolved", "executeResolved"}
          => /\ last'.calls = {}
             /\ pending' = pending]_vars

\* C28 witness: the one execution of a validated tools/call failed, the
\* request was answered and no handler is left suspended.
C28_Witness ==
  /\ last.op = "executeResolved"
  /\ ~last.outcome
  /\ last.calls = {}
  /\ pending = <<>>
  /\ Len(last.frames) = 1
  /\ last.frames[1].id = last.msg.id

\* C29: a payload for a registered connection is taken whenever the event
\* loop is idle, also while an earlier tools/call of the same connection is
\* suspended; a valid request is dispatched in the step that takes it, once:
\* its handler either writes its one reply to the connection in that step, or
\* writes nothing (`initialized`), or is suspended behind the handlers
\* suspended before it, which stay as they are and in their order; a resumed
\* handler writes its reply, in the step that resumes it, to its own
\* connection. So a ping is answered before a tools/call that arrived earlier
\* and is still suspended.
C29_DispatchedOnArrivalInOrder ==
  /\ [](\A cid \in ConnIds :
          (last.op = "init" /\ steps < MaxSteps /\ connections[cid] # 0)
            => ENABLED HandleMessage(cid, Obj("ping", "n1", NoParams)))
  /\ [][/\ (/\ last'.op = "msg" /\ last'.h # 0
            /\ last'.msg.shape = "object" /\ last'.msg.jsonrpc
            /\ last'.msg.method # "")
           => /\ last'.dispatched
              /\ Len(pending') >= Len(pending)
              /\ SubSeq(pending', 1, Len(pending)) = pending
              /\ IF Len(pending') > Len(pending)
                 THEN /\ pending' = Append(pending, [h |-> last'.h, req |-> last'.msg,
                                                     stage |-> "validating"])
                      /\ last'.frames = <<>>
                 ELSE IF last'.msg.method = "initialized"
                 THEN last'.frames = <<>>
                 ELSE /\ Len(last'.frames) = 1
                      /\ last'.frames[1].h = last'.h
                      /\ last'.frames[1].kind \in {"result", "error"}
        /\ last'.op \in {"validateResolved", "executeResolved"}
           => /\ \A k \in 1..Len(last'.frames) : last'.frames[k].h = last'.h
              /\ Len(last'.frames) <= 1
              /\ last'.frames = <<>> => Len(pending') = Len(pending)]_vars

\* C29 witness: a ping was answered on a connection whose earlier tools/call
\* is still suspended.
C29_Witness ==
  /\ last.op = "msg" /\ last.h # 0
  /\ last.msg.method = "ping" /\ last.msg.jsonrpc
  /\ \E k \in 1..Len(pending) : pending[k].h = last.h
  /\ Len(last.frames) = 1
  /\ last.frames[1].kind = "result"
  /\ last.frames[1].ok

\* C30: on a Ready connection resources/list is answered, whatever its
\* params, with one result for the request's id whose resources list is
\* empty, and resources/read, whatever its params, with one envelope-level
\* error RESOURCE_NOT_FOUND; neither calls the registry or the downstream.
C30_ResourcesArePlaceholders ==
  (/\ last.op = "msg" /\ last.h # 0
   /\ IsValidMCPMessage(last.msg)
   /\ last.preAuth)
  => /\ last.msg.method = "resources/list"
          => /\ Len(last.frames) = 1
             /\ last.frames[1].h = last.h
             /\ last.frames[1].kind = "result"
             /\ last.frames[1].tag = "resources"
             /\ ~last.frames[1].isError
             /\ last.frames[1].id = last.msg.id
             /\ ResourcesListResult.resources = <<>>
             /\ last.calls = {}
     /\ last.msg.method = "resources/read"
          => /\ Len(last.frames) = 1
             /\ last.frames[1].h = last.h
             /\ last.frames[1].kind = "error"
             /\ last.frames[1].code = RESOURCE_NOT_FOUND
             /\ last.calls = {}

\* C30 witness: a resources/read naming a resource, on a Ready connection, was
\* answered with RESOURCE_NOT_FOUND.
C30_Witness ==
  /\ last.op = "msg" /\ last.h # 0
  /\ last.msg.method = "resources/read"
  /\ last.msg.p.present /\ last.msg.p.name = "known"
  /\ last.preAuth
  /\ Len(last.frames) = 1
  /\ last.frames[1].code = RESOURCE_NOT_FOUND

\* C31: a message for a registered connection whose lastActivity is older than
\* connectionTimeout is handled like any other: the step ends no transport
\* and removes nothing unless the write of its reply throws, a ping is
\* answered with its result, and lastActivity becomes the current time, so
\* that the connection is not among those a tick at that time evicts; and a
\* tick evicts no connection whose lastActivity is not older than the timeout.
C31_StaleSessionStillServed ==
  [][/\ (/\ last'.op = "msg" /\ last'.h # 0
         /\ now - obj[last'.h].lastActivity > connectionTimeout)
        => /\ last'.evicted = {}
           /\ (\A k \in 1..Len(last'.frames) : last'.frames[k].ok)
                => /\ last'.ended = {}
                   /\ connections' = connections
                   /\ obj'[last'.h].lastActivity = now'
                   /\ last'.cid \notin StaleIds(connections', obj', now')
           /\ (IsValidMCPMessage(last'.msg) /\ last'.msg.method = "ping")
                => /\ Len(last'.frames) = 1
                   /\ last'.frames[1].kind = "result"
                   /\ last'.frames[1].tag = "timestamp"
     /\ last'.op = "tick"
        => \A i \in last'.evicted :
             now - obj[connections[i]].lastActivity > connectionTimeout]_vars

\* C31 witness: `initialized` was handled, without any write, on a connection
\* idle for longer than the timeout; the connection is registered, Ready and
\* its lastActivity is the current time.
C31_Witness ==
  /\ last.op = "msg" /\ last.h # 0
  /\ last.msg.method = "initialized" /\ last.msg.jsonrpc
  /\ now - last.preActivity > connectionTimeout
  /\ connections[last.cid] = last.h
  /\ obj[last.h].authenticated
  /\ obj[last.h].lastActivity = now


\* C32: a connection that has sent nothing for longer than connectionTimeout
\* is evicted by the sweeper's tick, although heartbeats were written to it
\* in the meantime.
C32_IdleSessionEvicted ==
  [][last'.op = "tick"
       => \A i \in ConnIds :
            (connections[i] # 0 /\ idle[connections[i]] > connectionTimeout)
              => connections'[i] = 0]_vars


\* C33: a close or error event of a transport removes no connection but the
\* one that was admitted with that transport: a connection registered with
\* another transport, under the same id or not, stays registered and its
\* transport is not ended.
C33_TransportEventRemovesOnlyItsSession ==
  [][last'.op \in {"close", "error"}
       => \A i \in ConnIds :
            (connections[i] # 0 /\ connections[i] # last'.h)
              => /\ connections'[i] = connections[i]
                 /\ connections[i] \notin last'.ended]_vars


\* C34: a request that carries an id and names a method other than
\* `initialized`, handled on a connection that is still registered afterwards,
\* is answered with exactly one frame, a result or an error carrying the
\* request's id, written to that connection; for tools/call the frame comes
\* with the step at which the last awaited call resolves, and none before.
C34_ExactlyOneResponseForId ==
  (/\ last.op \in {"msg", "validateResolved", "executeResolved"}
   /\ last.h # 0
   /\ IsValidMCPMessage(last.msg)
   /\ last.msg.method \notin {"", "initialized"}
   /\ last.msg.id # "none"
   /\ \E i \in ConnIds : connections[i] = last.h)
  => IF last.frames = <<>>
     THEN last.calls \cap {"validateToken", "executeTool"} # {}
     ELSE /\ Len(last.frames) = 1
          /\ last.frames[1].kind \in {"result", "error"}
          /\ last.frames[1].h = last.h
          /\ last.frames[1].id = last.msg.id


\* C35: handling a message of one connection, the steps of its suspended
\* tools/call included, writes frames to that connection's transport only
\* and leaves the fields of every other connection object as they were.
C35_SessionsIsolated ==
  [][last'.op \in {"msg", "validateResolved", "executeResolved"}
       => /\ \A k \in 1..Len(last'.frames) : last'.frames[k].h = last'.h
          /\ \A h2 \in Handles \ {last'.h} :
               obj'[h2].id # 0 => obj'[h2] = obj[h2]]_vars

\* C35 witness: an initialize was answered and recorded on one connection
\* at a later time than the last activity of another, Ready connection with
\* no client info.
C35_Witness ==
  /\ last.op = "msg" /\ last.h # 0
  /\ last.msg.method = "initialize"
  /\ Len(last.frames) = 1 /\ last.frames[1].kind = "result"
  /\ obj[last.h].clientInfo # "none"
  /\ \E i \in ConnIds :
       /\ connections[i] \notin {0, last.h}
       /\ obj[connections[i]].authenticated
       /\ obj[connections[i]].clientInfo = "none"
       /\ obj[connections[i]].lastActivity < now


\* C36: handleMessage for an id the registry has no entry for does nothing:
\* no connection is registered, no connection object, callback, transport or
\* suspended call changes, no frame is written, no handler is reached, no
\* transport is ended and nothing is thrown.
C36_UnknownConnectionIsNoOp ==
  [][(last'.op = "msg" /\ connections[last'.cid] = 0)
       => /\ last'.h = 0
          /\ UNCHANGED <<now, connections, obj, cbs, broken, pending,
                         heartbeatInterval, idle>>
          /\ last'.frames = <<>>
          /\ last'.calls = {}
          /\ ~last'.dispatched
          /\ ~last'.threw
          /\ last'.ended = {}]_vars

\* C36 witness: a message came for the id of a connection that was removed
\* some time ago and whose object is still alive, while another connection
\* is registered.
C36_Witness ==
  /\ last.op = "msg" /\ last.h = 0
  /\ connections[last.cid] = 0
  /\ \E h \in Handles : obj[h].id = last.cid /\ obj[h].lastActivity < now
  /\ \E i \in ConnIds : connections[i] # 0


\* C37 (as stated): a shutdown empties the registry, ends the transport of
\* every connection that was registered and clears the timer, after which
\* there is no tick; and a shutdown that comes after an earlier one changes
\* nothing and ends nothing.
C37_SecondShutdownIsNoOp ==
  [][/\ last'.op = "shutdown"
          => /\ \A i \in ConnIds : connections'[i] = 0
             /\ last'.ended = {connections[i] : i \in {j \in ConnIds : connections[j] # 0}}
             /\ ~heartbeatInterval'
             /\ ~heartbeatInterval
                  => /\ last'.ended = {}
                     /\ UNCHANGED <<now, connections, obj, cbs, broken, pending,
                                    heartbeatInterval, idle>>
     /\ ~heartbeatInterval => (~heartbeatInterval' /\ last'.op # "tick")]_vars

\* C37 (amended): a shutdown empties the registry, ends the transport of
\* every connection that was registered, the ones admitted after an earlier
\* shutdown included, and clears the timer, after which there is no tick; it
\* writes no frame and leaves the clock, the callbacks and the suspended
\* calls alone; with the timer cleared and the registry empty it changes
\* nothing and ends nothing.
C37_ShutdownEndsAllAndStopsTimer ==
  [][/\ last'.op = "shutdown"
          => /\ \A i \in ConnIds : connections'[i] = 0
             /\ last'.ended = {connections[i] : i \in {j \in ConnIds : connections[j] # 0}}
             /\ ~heartbeatInterval'
             /\ last'.frames = <<>>
             /\ UNCHANGED <<now, cbs, pending>>
             /\ (~heartbeatInterval /\ \A i \in ConnIds : connections[i] = 0)
                  => /\ last'.ended = {}
                     /\ UNCHANGED <<now, connections, obj, cbs, broken, pending,
                                    heartbeatInterval, idle>>
     /\ ~heartbeatInterval => (~heartbeatInterval' /\ last'.op # "tick")]_vars

\* C37 witness: a shutdown came with the timer already cleared and nothing
\* registered, while the object of a connection removed earlier is still
\* alive.
C37_Witness ==
  /\ last.op = "shutdown"
  /\ ~last.preTimer
  /\ last.ended = {}
  /\ \E h \in Handles : obj[h].id # 0 /\ cbs[h] /\ connections[obj[h].id] # h


\* C38: an initialize with protocolVersion and clientInfo on a Ready
\* connection records its clientInfo and capabilities in place of the earlier
\* ones, is answered with the initialize result under the request's id, and
\* leaves the connection Ready.
C38_SecondInitializeOverwrites ==
  (/\ last.op = "msg" /\ last.h # 0
   /\ IsValidMCPMessage(last.msg)
   /\ last.msg.method = "initialize"
   /\ last.preAuth
   /\ last.msg.p.present /\ last.msg.p.protocolVersion
   /\ last.msg.p.clientInfo # "none"
   /\ obj[last.h].id # 0)
  => /\ obj[last.h].clientInfo = last.msg.p.clientInfo
     /\ obj[last.h].capabilities = last.msg.p.capabilities
     /\ obj[last.h].authenticated
     /\ Len(last.frames) = 1
     /\ last.frames[1].h = last.h
     /\ last.frames[1].kind = "result"
     /\ last.frames[1].tag = "initialize"
     /\ last.frames[1].id = last.msg.id

\* C38 witness: a Ready connection that had recorded client "a" got an
\* initialize from client "b" without capabilities and now records "b" and
\* no capabilities.
C38_Witness ==
  /\ last.op = "msg" /\ last.h # 0
  /\ last.msg.method = "initialize"
  /\ last.preAuth
  /\ last.preInfo = "a"
  /\ last.msg.p.clientInfo = "b"
  /\ connections[last.cid] = last.h
  /\ obj[last.h].clientInfo = "b"
  /\ obj[last.h].capabilities = "none"
  /\ obj[last.h].authenticated


\* C39: a valid message without a method, that is one with a result or an
\* error, sent for a registered connection is only logged: no frame is
\* written, handleRequest is not reached, nothing is called or ended, and
\* nothing changes but the connection's lastActivity, which becomes the
\* current time.
C39_ClientResponseOnlyLogged ==
  [][(/\ last'.op = "msg" /\ last'.h # 0
      /\ IsValidMCPMessage(last'.msg)
      /\ last'.msg.method = "")
       => /\ last'.msg.hasResult \/ last'.msg.hasError
          /\ last'.frames = <<>>
          /\ ~last'.dispatched
          /\ last'.calls = {}
          /\ last'.ended = {}
          /\ obj' = [obj EXCEPT ![last'.h].lastActivity = now]
          /\ UNCHANGED <<now, connections, cbs, broken, pending,
                         heartbeatInterval>>]_vars

\* C39 witness: a Ready connection that had recorded a client sent a message
\* with an error and no method some time after its last activity.
C39_Witness ==
  /\ last.op = "msg" /\ last.h # 0
  /\ IsValidMCPMessage(last.msg)
  /\ last.msg.method = "" /\ last.msg.hasError
  /\ last.preActivity < now
  /\ obj[last.h].lastActivity = now
  /\ obj[last.h].clientInfo # "none"


\* C40: an admission writes one frame, the welcome notification, to the
\* transport of the connection object it has just created; every other step
\* writes no welcome and writes only to connection objects that existed
\* before it, that is, after their welcome.
C40_WelcomeFirstAndOnce ==
  [][/\ last'.op = "add"
          => /\ obj[last'.h].id = 0
             /\ Len(last'.frames) = 1
             /\ last'.frames[1].h = last'.h
             /\ last'.frames[1].kind = "notification"
             /\ last'.frames[1].tag = "welcome"
     /\ last'.op # "add"
          => \A k \in 1..Len(last'.frames) :
               /\ last'.frames[k].tag # "welcome"
               /\ obj[last'.frames[k].h].id # 0]_vars

\* C40 witness: a connection was admitted and its welcome written while
\* another connection, admitted earlier, is registered and Ready.
C40_Witness ==
  /\ last.op = "add"
  /\ Len(last.frames) = 1 /\ last.frames[1].ok
  /\ connections[last.cid] = last.h
  /\ \E i \in ConnIds :
       /\ connections[i] \notin {0, last.h}
       /\ obj[connections[i]].authenticated

====
